---------------------------- MODULE Spec2Model ----------------------------
(***************************************************************************)
(* Model of src/server.js: an Express server in front of Elasticsearch.    *)
(*                                                                         *)
(*   - startup IIFE: cluster health, ensureIndexes, app.listen             *)
(*   - POST /insertSampleData: two bulk requests (company, then reports)   *)
(*   - POST /search: report query, key extraction, company query, join     *)
(*                                                                         *)
(* Elasticsearch is the environment.  An index is the sequence of its live *)
(* documents in internal document order (the order a constant-score query  *)
(* returns them in, and the tie-break of a sort); indexing a document      *)
(* under an existing _id deletes the old version and appends the new one.  *)
(* Every client call may throw (the engine is unreachable or rejects the   *)
(* request).                                                               *)
(***************************************************************************)
EXTENDS Integers, Sequences, FiniteSets, TLC

(***************************************************************************)
(* Bounds of the model.                                                    *)
(***************************************************************************)
\* companies X1..Xn that the index may hold besides the sample companies
MaxExtra == 6
\* a bulk request may reject its first MaxRejected items
MaxRejected == 1
\* the requests the server receives, of either kind
MaxRequests == 2

(***************************************************************************)
(* Program constants.                                                      *)
(***************************************************************************)
SampleCompanies == 5
ReportsPerCompany == 3
DefaultPage == 1
DefaultSize == 10
ReportSizeCap == 10000

(***************************************************************************)
(* JSON values of a request body, tagged with their JavaScript type.       *)
(***************************************************************************)
JUndef == [t |-> "undefined"]
JStr(s) == [t |-> "string", s |-> s]
JNum(n) == [t |-> "number", n |-> n]
JArr(items) == [t |-> "array", items |-> items]
JObj == [t |-> "object"]

\* ToBoolean: undefined, "" and 0 are falsy; arrays and objects are truthy
Truthy(v) ==
  CASE v.t = "undefined" -> FALSE
    [] v.t = "string" -> v.s # ""
    [] v.t = "number" -> v.n # 0
    [] OTHER -> TRUE

\* v.length: defined for strings and arrays only
Length(v) ==
  CASE v.t = "string" -> JNum(Len(v.s))
    [] v.t = "array" -> JNum(Len(v.items))
    [] OTHER -> JUndef

\* a destructuring default applies when the key is undefined
OrDefault(v, d) == IF v.t = "undefined" THEN d ELSE v

(***************************************************************************)
(* Sequence helpers (Array.prototype.map, new Set).  Array.prototype.filter *)
(* is SelectSeq.                                                           *)
(***************************************************************************)
Range(s) == {s[i] : i \in DOMAIN s}

\* [...new Set(s)]: the distinct elements of s, in order of first occurrence
RECURSIVE Distinct(_)
Distinct(s) ==
  IF s = <<>> THEN <<>>
  ELSE LET init == Distinct(SubSeq(s, 1, Len(s) - 1))
           last == s[Len(s)]
       IN IF last \in Range(init) THEN init ELSE Append(init, last)

Min(a, b) == IF a <= b THEN a ELSE b

(***************************************************************************)
(* Documents.  Template literals `C${i}`, `Company ${i}`, ... are string   *)
(* concatenations.                                                         *)
(***************************************************************************)
CompanyId(i) == "C" \o ToString(i)
CompanyName(i) == "Company " \o ToString(i)
ReportId(n) == "R" \o ToString(n)
ReportName(n) == "Report " \o ToString(n)
TagName(r) == "tag" \o ToString(r)

ExtraId(i) == "X" \o ToString(i)
ExtraName(i) == "Acme " \o ToString(i)
ExtraReportId(i) == "Y" \o ToString(i)
ExtraReportName(i) == "Audit " \o ToString(i)

\* the companies array built by the loop of /insertSampleData
SampleCompanyDocs ==
  [i \in 1..SampleCompanies |-> [id |-> CompanyId(i), name |-> CompanyName(i)]]

\* the report pushed for company number c and r = 1..3; reportCounter is
\* local to the handler and runs 1, 2, 3, ... over the companies in order
SampleReport(c, r) ==
  LET reportCounter == (c - 1) * ReportsPerCompany + r
  IN [id |-> ReportId(reportCounter),
      name |-> ReportName(reportCounter),
      company_id |-> SampleCompanyDocs[c].id,
      tags |-> <<TagName(r), "common">>,
      status |-> IF r % 2 = 0 THEN "draft" ELSE "published"]

SampleReportDocs ==
  [n \in 1..(SampleCompanies * ReportsPerCompany) |->
     SampleReport(((n - 1) \div ReportsPerCompany) + 1,
                  ((n - 1) % ReportsPerCompany) + 1)]

\* the action/source pairs of a bulk body: index under _id = doc.id
BulkOps(docs) == [i \in DOMAIN docs |-> [_id |-> docs[i].id, _source |-> docs[i]]]

(***************************************************************************)
(* Further documents an index may hold when the server starts: the extra   *)
(* companies X1.. with one report each, an older version of C1 and R1, and *)
(* a report whose company_id names no company (nothing enforces the        *)
(* reference).                                                             *)
(***************************************************************************)
ExtraCompany(i) == [id |-> ExtraId(i), name |-> ExtraName(i)]

ExtraReport(i) ==
  [id |-> ExtraReportId(i), name |-> ExtraReportName(i), company_id |-> ExtraId(i),
   tags |-> <<TagName((i % ReportsPerCompany) + 1)>>,
   status |-> IF i % 2 = 0 THEN "draft" ELSE "published"]

StaleCompany == [id |-> CompanyId(1), name |-> "Legacy 1"]

StaleReport ==
  [id |-> ReportId(1), name |-> "Legacy 1", company_id |-> CompanyId(1),
   tags |-> <<TagName(2)>>, status |-> "draft"]

OrphanReport ==
  [id |-> "Y0", name |-> "Audit 0", company_id |-> "X0",
   tags |-> <<"common">>, status |-> "draft"]

(***************************************************************************)
(* Elasticsearch: the mappings of ensureIndexes decide how a field is      *)
(* matched.  keyword fields (id, company_id, status, name.keyword,         *)
(* tags.keyword) hold the exact string; text fields (name, tags) hold the  *)
(* tokens of the standard analyzer (split at white space, lower-cased).    *)
(***************************************************************************)
Words == {"Company", "Report", "Acme", "Audit", "Legacy"}

Lower(w) ==
  CASE w = "Company" -> "company"
    [] w = "Report" -> "report"
    [] w = "Acme" -> "acme"
    [] w = "Audit" -> "audit"
    [] w = "Legacy" -> "legacy"
    [] OTHER -> w

MaxNumber == SampleCompanies * ReportsPerCompany + MaxExtra

\* every text "<Word> <number>" of the model with its tokens
TwoTokenTexts ==
  {[text |-> w \o " " \o ToString(n), tokens |-> {Lower(w), ToString(n)}] :
     w \in Words, n \in 0..MaxNumber}

Analyze(s) ==
  LET known == {t \in TwoTokenTexts : t.text = s}
  IN IF known = {} THEN {Lower(s)} ELSE (CHOOSE t \in known : TRUE).tokens

\* the keyword values that a sort compares, in ascending (byte) order
KeywordOrder ==
  [i \in 1..(MaxExtra + 1) |-> ExtraName(i)]
  \o [i \in 1..SampleCompanies |-> CompanyId(i)]
  \o [i \in 1..SampleCompanies |-> CompanyName(i)]
  \o <<"Legacy 1">>
  \o [i \in 1..(MaxExtra + 1) |-> ExtraId(i)]

KeywordRank(v) == CHOOSE i \in DOMAIN KeywordOrder : KeywordOrder[i] = v

\* a faulty variant: the document is added beside the version stored under its _id
EsAddDoc(idx, op) == idx \o <<op>>

\* index one document: the version stored under the same _id is replaced
EsIndexDoc(idx, op) == SelectSeq(idx, LAMBDA d : d._id # op._id) \o <<op>>

\* a bulk request applies its operations in order; the items in `rejected`
\* fail (reported in resp.items, resp.errors = true) and write nothing
RECURSIVE EsBulk(_, _, _)
EsBulk(idx, ops, rejected) ==
  IF ops = <<>> THEN idx
  ELSE LET n == Len(ops)
           before == EsBulk(idx, SubSeq(ops, 1, n - 1), rejected)
       IN IF n \in rejected THEN before ELSE EsIndexDoc(before, ops[n])

\* whether the engine accepts a query clause (a terms query needs an array)
ClauseValid(c) ==
  CASE c.q = "terms" -> c.value.t = "array"
    [] OTHER -> TRUE

\* whether document source d satisfies query clause c
ClauseMatches(d, c) ==
  CASE c.q = "term" /\ c.field = "id" -> d.id = c.value.s
    [] c.q = "term" /\ c.field = "status" -> d.status = c.value.s
    [] c.q = "match" -> Analyze(d.name) \cap Analyze(c.value.s) # {}
    [] c.q = "terms" /\ c.field = "tags.keyword" ->
         Range(d.tags) \cap Range(c.value.items) # {}
    [] c.q = "terms" /\ c.field = "id" -> d.id \in Range(c.value.items)
    [] OTHER -> FALSE

\* { bool: { must: [...] } } is the conjunction; { match_all: {} } is TRUE
QueryMatches(d, query) ==
  IF query.q = "match_all" THEN TRUE
  ELSE \A i \in DOMAIN query.must : ClauseMatches(d, query.must[i])

QueryValid(query) ==
  query.q = "match_all" \/ \A i \in DOMAIN query.must : ClauseValid(query.must[i])

\* a sort needs a keyword field: sorting on the text field name is rejected
SortValid(sort) == sort.field \in {"name.keyword", "id"}

SortKey(d, field) == KeywordRank(IF field = "id" THEN d.id ELSE d.name)

\* d1 comes before d2 under the sort (equal keys keep document order)
Precedes(d1, d2, sort) ==
  IF sort.order = "desc"
  THEN SortKey(d1, sort.field) > SortKey(d2, sort.field)
  ELSE SortKey(d1, sort.field) < SortKey(d2, sort.field)

RECURSIVE InsertSorted(_, _, _)
InsertSorted(sorted, d, sort) ==
  IF sorted = <<>> THEN <<d>>
  ELSE IF Precedes(d, Head(sorted), sort) THEN <<d>> \o sorted
       ELSE <<Head(sorted)>> \o InsertSorted(Tail(sorted), d, sort)

RECURSIVE EsSort(_, _)
EsSort(docs, sort) ==
  IF docs = <<>> THEN <<>>
  ELSE InsertSorted(EsSort(SubSeq(docs, 1, Len(docs) - 1), sort), docs[Len(docs)], sort)

\* whether the engine accepts the search request
EsSearchValid(req) ==
  /\ QueryValid(req.query)
  /\ req.sorted => SortValid(req.sort)
  /\ req.from >= 0
  /\ req.size >= 0

\* the response of esClient.search: hits.total.value counts every match,
\* hits.hits holds the sources of the page from .. from + size
EsSearch(idx, req) ==
  LET matched == SelectSeq(idx, LAMBDA d : QueryMatches(d._source, req.query))
      sources == [i \in DOMAIN matched |-> matched[i]._source]
      ordered == IF req.sorted THEN EsSort(sources, req.sort) ELSE sources
  IN [total |-> Len(matched),
      hits |-> SubSeq(ordered, req.from + 1, Min(req.from + req.size, Len(ordered)))]

(***************************************************************************)
(* POST /search: the pure parts of the handler.                            *)
(***************************************************************************)
\* a faulty variant: the tags clause is pushed for an empty list too
ReportMustAnyTags(reportFilters) ==
  (IF Truthy(reportFilters.id)
   THEN <<[q |-> "term", field |-> "id", value |-> reportFilters.id]>> ELSE <<>>)
  \o (IF Truthy(reportFilters.name)
      THEN <<[q |-> "match", field |-> "name", value |-> reportFilters.name]>> ELSE <<>>)
  \o (IF Truthy(reportFilters.tags)
      THEN <<[q |-> "terms", field |-> "tags.keyword", value |-> reportFilters.tags]>>
      ELSE <<>>)
  \o (IF Truthy(reportFilters.status)
      THEN <<[q |-> "term", field |-> "status", value |-> reportFilters.status]>> ELSE <<>>)

\* the clauses pushed on reportMust, in the order of the four if statements
ReportMust(reportFilters) ==
  (IF Truthy(reportFilters.id)
   THEN <<[q |-> "term", field |-> "id", value |-> reportFilters.id]>> ELSE <<>>)
  \o (IF Truthy(reportFilters.name)
      THEN <<[q |-> "match", field |-> "name", value |-> reportFilters.name]>> ELSE <<>>)
  \o (IF Truthy(reportFilters.tags) /\ Truthy(Length(reportFilters.tags))
      THEN <<[q |-> "terms", field |-> "tags.keyword", value |-> reportFilters.tags]>>
      ELSE <<>>)
  \o (IF Truthy(reportFilters.status)
      THEN <<[q |-> "term", field |-> "status", value |-> reportFilters.status]>> ELSE <<>>)

BoolMust(must) == [q |-> "bool", must |-> must]

MatchAll == [q |-> "match_all", must |-> <<>>]

DefaultSort == [field |-> "name.keyword", order |-> "asc"]

\* a faulty variant: the report query asks for the default ten hits
ReportQueryTenHits(body) ==
  LET reportMust == ReportMust(body.reportFilters)
  IN [index |-> "reports",
      sorted |-> FALSE, sort |-> DefaultSort,
      from |-> 0,
      size |-> 10,
      query |-> IF Len(reportMust) # 0 THEN BoolMust(reportMust) ELSE MatchAll]

ReportQuery(body) ==
  LET reportMust == ReportMust(body.reportFilters)
  IN [index |-> "reports",
      sorted |-> FALSE, sort |-> DefaultSort,
      from |-> 0,
      size |-> ReportSizeCap,
      query |-> IF Len(reportMust) # 0 THEN BoolMust(reportMust) ELSE MatchAll]

\* [...new Set(matchingReports.map(r => r.company_id))]
MatchingCompanyIds(matchingReports) ==
  Distinct([i \in DOMAIN matchingReports |-> matchingReports[i].company_id])

\* a faulty variant: the terms clause over the matching company ids is not pushed
CompanyMustWithoutKeys(companyFilters, matchingCompanyIds) ==
  (IF Truthy(companyFilters.id)
   THEN <<[q |-> "term", field |-> "id", value |-> companyFilters.id]>> ELSE <<>>)
  \o (IF Truthy(companyFilters.name)
      THEN <<[q |-> "match", field |-> "name", value |-> companyFilters.name]>> ELSE <<>>)

CompanyMust(companyFilters, matchingCompanyIds) ==
  (IF Truthy(companyFilters.id)
   THEN <<[q |-> "term", field |-> "id", value |-> companyFilters.id]>> ELSE <<>>)
  \o (IF Truthy(companyFilters.name)
      THEN <<[q |-> "match", field |-> "name", value |-> companyFilters.name]>> ELSE <<>>)
  \o <<[q |-> "terms", field |-> "id", value |-> JArr(matchingCompanyIds)]>>

\* a faulty variant: the offset of the page after the one asked for
PageFromNext(page, size) == page * size

\* from: (page - 1) * size
PageFrom(page, size) == (page - 1) * size

CompanyQuery(body, matchingCompanyIds) ==
  LET page == OrDefault(body.page, JNum(DefaultPage)).n
      size == OrDefault(body.size, JNum(DefaultSize)).n
      sortField == OrDefault(body.sortField, JStr("name.keyword")).s
      sortOrder == OrDefault(body.sortOrder, JStr("asc")).s
  IN [index |-> "company",
      sorted |-> TRUE, sort |-> [field |-> sortField, order |-> sortOrder],
      from |-> PageFrom(page, size),
      size |-> size,
      query |-> BoolMust(CompanyMust(body.companyFilters, matchingCompanyIds))]

\* a faulty variant: every matching report is attached to every company
AttachAllReports(company, matchingReports) ==
  [id |-> company.id, name |-> company.name, reports |-> matchingReports]

\* Step 3: each company with the matching reports whose company_id is its id
AttachReports(company, matchingReports) ==
  [id |-> company.id, name |-> company.name,
   reports |-> SelectSeq(matchingReports, LAMBDA r : r.company_id = company.id)]

CompaniesWithReports(companies, matchingReports) ==
  [i \in DOMAIN companies |-> AttachReports(companies[i], matchingReports)]

\* the body of res.json / res.status(500).json
OkResponse(total, companies) ==
  [status |-> 200, body |-> [success |-> TRUE, total |-> total, companies |-> companies]]

\* a faulty variant: res.json without res.status(500)
ErrorResponseStatusOk(message) ==
  [status |-> 200, body |-> [success |-> FALSE, error |-> message]]

ErrorResponse(message) ==
  [status |-> 500, body |-> [success |-> FALSE, error |-> message]]

\* err.message of what a client call throws
ConnectionError == "connect ECONNREFUSED"
ResponseError == "search_phase_execution_exception"

(***************************************************************************)
(* State.                                                                  *)
(***************************************************************************)
VARIABLES
  esCompany,    \* Elasticsearch: the documents of index company
  esReports,    \* Elasticsearch: the documents of index reports
  indices,      \* Elasticsearch: the names of the indices that exist
  clientV7,     \* the client wraps every response in { body } (7.x client)
  startPc,      \* startup IIFE: the call it awaits, or "serving" / "failed"
  console,      \* the lines written by console.log / console.error
  listening,    \* app.listen has been called
  search,       \* POST /search handler: position, locals, lines logged
  searchSent,   \* the responses the handler has sent for its request
  searchEs,     \* the engine as this request saw it: queries issued, failures
  insert,       \* POST /insertSampleData handler: position and outcome
  requests,     \* the number of requests received
  seeded        \* the index content when the first clean seed run ended

vars == <<esCompany, esReports, indices, clientV7, startPc, console, listening,
          search, searchSent, searchEs, insert, requests, seeded>>

esVars == <<esCompany, esReports, indices>>
searchVars == <<search, searchSent, searchEs>>
insertVars == <<insert, seeded>>

(***************************************************************************)
(* Initial states: the server has not started; the engine holds none, some *)
(* or all of the documents above, and an index holding documents exists.   *)
(***************************************************************************)
\* documents stored under _id = id, in the order given
AsDocs(sources) == [i \in DOMAIN sources |-> [_id |-> sources[i].id, _source |-> sources[i]]]

InitialCompanies ==
  {AsDocs(stale \o [i \in 1..n |-> ExtraCompany(i)]) :
     stale \in {<<>>, <<StaleCompany>>}, n \in {0, 1, MaxExtra}}

\* every extra company owns its report, but possibly the last one; the
\* older R1 is there when the older C1 is, and the report of no company
\* when there are extra companies
InitialReports(company) ==
  LET stale == IF \E i \in DOMAIN company : company[i]._source = StaleCompany
               THEN <<StaleReport>> ELSE <<>>
      nExtra == Cardinality({i \in DOMAIN company : company[i]._source # StaleCompany})
      orphan == IF nExtra > 0 THEN <<OrphanReport>> ELSE <<>>
  IN {AsDocs(stale \o orphan \o [i \in 1..n |-> ExtraReport(i)]) :
        n \in {m \in {nExtra - 1, nExtra} : m >= 0}}

Filters(id, name, tags, status) ==
  [id |-> id, name |-> name, tags |-> tags, status |-> status]

NoFilters == Filters(JUndef, JUndef, JUndef, JUndef)

Paging(page, size, sortField, sortOrder) ==
  [page |-> page, size |-> size, sortField |-> sortField, sortOrder |-> sortOrder]

NoPaging == Paging(JUndef, JUndef, JUndef, JUndef)

\* req.body; a filter object that is absent is the default {}, whose fields
\* are all undefined
Body(companyFilters, reportFilters, paging) ==
  [companyFilters |-> companyFilters, reportFilters |-> reportFilters,
   page |-> paging.page, size |-> paging.size,
   sortField |-> paging.sortField, sortOrder |-> paging.sortOrder]

EmptyBody == Body(NoFilters, NoFilters, NoPaging)

ReportFilterChoices ==
  {NoFilters,
   Filters(JStr(""), JStr(""), JArr(<<>>), JStr("")),
   Filters(JStr(ReportId(2)), JUndef, JUndef, JUndef),
   Filters(JStr(ExtraReportId(1)), JUndef, JUndef, JUndef),
   Filters(JUndef, JStr(ReportName(2)), JUndef, JUndef),
   Filters(JUndef, JStr("audit"), JUndef, JUndef),
   Filters(JUndef, JUndef, JArr(<<>>), JUndef),
   Filters(JUndef, JUndef, JArr(<<TagName(2)>>), JUndef),
   Filters(JUndef, JUndef, JArr(<<TagName(1), TagName(3)>>), JUndef),
   Filters(JUndef, JUndef, JArr(<<"common">>), JStr("draft")),
   Filters(JUndef, JUndef, JNum(5), JUndef),
   Filters(JUndef, JUndef, JObj, JStr("draft")),
   Filters(JUndef, JUndef, JStr("common"), JUndef),
   Filters(JUndef, JUndef, JUndef, JStr("draft")),
   Filters(JUndef, JUndef, JUndef, JStr("published")),
   Filters(JUndef, JUndef, JUndef, JStr("archived")),
   Filters(JStr(ReportId(2)), JUndef, JUndef, JStr("published")),
   Filters(JStr(ReportId(2)), JStr(ReportName(2)), JArr(<<TagName(2)>>), JStr("draft"))}

CompanyFilterChoices ==
  {NoFilters,
   Filters(JStr(CompanyId(1)), JUndef, JUndef, JUndef),
   Filters(JUndef, JStr(CompanyName(1)), JUndef, JUndef),
   Filters(JStr(CompanyId(2)), JStr("acme"), JUndef, JUndef)}

PagingChoices ==
  {Paging(page, JNum(2), JUndef, JUndef) : page \in {JUndef, JNum(0), JNum(3)}}
  \cup {Paging(JNum(2), JUndef, JUndef, JUndef), Paging(JUndef, JNum(0), JUndef, JUndef),
         Paging(JNum(2), JNum(5), JUndef, JUndef)}
  \cup {Paging(JNum(2), JNum(2), sortField, sortOrder) :
          sortField \in {JUndef, JStr("id"), JStr("name")},
          sortOrder \in {JUndef, JStr("desc")}}

Bodies ==
  {Body(NoFilters, rf, NoPaging) : rf \in ReportFilterChoices}
  \cup {Body(cf, rf, NoPaging) :
          cf \in CompanyFilterChoices,
          rf \in {NoFilters, Filters(JUndef, JUndef, JUndef, JStr("draft"))}}
  \cup {Body(NoFilters, NoFilters, pg) : pg \in PagingChoices}
  \cup {Body(Filters(JUndef, JStr(CompanyName(1)), JUndef, JUndef),
              Filters(JUndef, JUndef, JUndef, JStr("draft")),
              Paging(JNum(2), JNum(2), JUndef, sortOrder)) :
          sortOrder \in {JUndef, JStr("desc")}}

NoRequest ==
  [pc |-> "idle", body |-> EmptyBody, reportQuery |-> ReportQuery(EmptyBody),
   matchingReports |-> <<>>, logged |-> <<>>]

NoQueries ==
  [reportQueries |-> 0, companyQueries |-> 0, failedAt |-> "none",
   reportsSeen |-> <<>>, companySeen |-> <<>>]

NoInsert == [pc |-> "idle", clean |-> TRUE, runs |-> 0, sent |-> <<>>, logged |-> <<>>]

Init ==
  /\ esCompany \in InitialCompanies
  /\ esReports \in InitialReports(esCompany)
  /\ indices \in {ix \in SUBSET {"company", "reports"} :
                    /\ esCompany # <<>> => "company" \in ix
                    /\ esReports # <<>> => "reports" \in ix}
  /\ clientV7 \in BOOLEAN
  /\ startPc = "health"
  /\ console = <<>>
  /\ listening = FALSE
  /\ search = NoRequest
  /\ searchSent = <<>>
  /\ searchEs = NoQueries
  /\ insert = NoInsert
  /\ requests = 0
  /\ seeded = <<>>

(***************************************************************************)
(* Startup IIFE.  Each action is the continuation of one await: the call   *)
(* either throws, which the catch block logs, or returns.                  *)
(***************************************************************************)
\* a faulty variant: app.listen follows the try statement
StartupCatchThenListen == [pc |-> "failed", line |-> "Startup error", listen |-> TRUE]

\* catch (err) { console.error('Startup error:', err) }
\* and nothing after the try statement: the listener stays as it is
StartupCatch == [pc |-> "failed", line |-> "Startup error", listen |-> FALSE]

StartupFails ==
  /\ startPc' = StartupCatch.pc
  /\ console' = Append(console, StartupCatch.line)
  /\ listening' = (listening \/ StartupCatch.listen)
  /\ UNCHANGED esVars

\* ensureIndexes has returned: log, then app.listen
IndexesEnsured(lines) ==
  /\ console' = console \o lines \o <<"Indexes ensured.">>
  /\ listening' = TRUE
  /\ startPc' = "serving"

\* await esClient.cluster.health()
Health ==
  /\ startPc = "health"
  /\ \E throws \in BOOLEAN :
       IF throws THEN StartupFails
       ELSE /\ console' = Append(console, "Elasticsearch cluster health")
            /\ startPc' = "info"
            /\ UNCHANGED <<listening, esVars>>
  /\ UNCHANGED <<clientV7, searchVars, insertVars, requests>>

\* isES7: await esClient.info(), then info.version.number, which is
\* undefined.number when the client wraps the response in { body }
Info ==
  /\ startPc = "info"
  /\ \E throws \in BOOLEAN :
       IF throws \/ clientV7 THEN StartupFails
       ELSE /\ startPc' = "existsCompany"
            /\ UNCHANGED <<console, listening, esVars>>
  /\ UNCHANGED <<clientV7, searchVars, insertVars, requests>>

\* indexExists('company'): exists.body when the client wraps, else exists
ExistsCompany ==
  /\ startPc = "existsCompany"
  /\ \E throws \in BOOLEAN :
       IF throws THEN StartupFails
       ELSE /\ startPc' = IF "company" \in indices THEN "existsReports"
                                                     ELSE "createCompany"
            /\ UNCHANGED <<console, listening, esVars>>
  /\ UNCHANGED <<clientV7, searchVars, insertVars, requests>>

\* await esClient.indices.create({ index: 'company', ... })
CreateCompany ==
  /\ startPc = "createCompany"
  /\ \E throws \in BOOLEAN :
       IF throws THEN StartupFails
       ELSE /\ indices' = indices \cup {"company"}
            /\ console' = Append(console, "Created company index")
            /\ startPc' = "existsReports"
            /\ UNCHANGED <<listening, esCompany, esReports>>
  /\ UNCHANGED <<clientV7, searchVars, insertVars, requests>>

\* indexExists('reports'); when it exists ensureIndexes returns
ExistsReports ==
  /\ startPc = "existsReports"
  /\ \E throws \in BOOLEAN :
       IF throws THEN StartupFails
       ELSE IF "reports" \in indices
            THEN IndexesEnsured(<<>>) /\ UNCHANGED esVars
            ELSE /\ startPc' = "createReports"
                 /\ UNCHANGED <<console, listening, esVars>>
  /\ UNCHANGED <<clientV7, searchVars, insertVars, requests>>

\* await esClient.indices.create({ index: 'reports', ... }); ensureIndexes
\* returns
CreateReports ==
  /\ startPc = "createReports"
  /\ \E throws \in BOOLEAN :
       IF throws THEN StartupFails
       ELSE /\ indices' = indices \cup {"reports"}
            /\ IndexesEnsured(<<"Created reports index">>)
            /\ UNCHANGED <<esCompany, esReports>>
  /\ UNCHANGED <<clientV7, searchVars, insertVars, requests>>

(***************************************************************************)
(* POST /search.  A request is taken when the listener runs and the        *)
(* previous one has been answered (requests share no state, so one handler *)
(* shows them all); its response stays visible until the next one.         *)
(***************************************************************************)
\* a faulty variant: the handler never returns early
NeverShortCircuits(matchingCompanyIds) == FALSE

\* if (!matchingCompanyIds.length) return res.json(...)
ShortCircuits(matchingCompanyIds) == Len(matchingCompanyIds) = 0

\* catch (err) { console.error(err); res.status(500).json(...) }
SearchCatch(message) ==
  /\ search' = [search EXCEPT !.pc = "done", !.logged = Append(@, message)]
  /\ searchSent' = Append(searchSent, ErrorResponse(message))

\* the engine fails the query of this stage
EsFails(stage) == searchEs' = [searchEs EXCEPT !.failedAt = stage]

\* the handler runs to its first await: esClient.search(reportQuery)
ReceiveSearch ==
  /\ listening
  /\ requests < MaxRequests
  /\ search.pc \in {"idle", "done"}
  /\ \E body \in Bodies :
       search' = [pc |-> "reportQuery", body |-> body,
                  reportQuery |-> ReportQuery(body),
                  matchingReports |-> <<>>, logged |-> <<>>]
  /\ searchSent' = <<>>
  /\ searchEs' = [NoQueries EXCEPT !.reportQueries = 1]
  /\ requests' = requests + 1
  /\ UNCHANGED <<esVars, clientV7, startPc, console, listening, insertVars>>

\* the report query returns or throws; on hits the handler extracts the
\* company ids and either answers at once or awaits the company query
ReportQueryReturns ==
  /\ search.pc = "reportQuery"
  /\ \E throws \in BOOLEAN :
       IF throws THEN EsFails("reports") /\ SearchCatch(ConnectionError)
       ELSE IF ~EsSearchValid(search.reportQuery)
       THEN EsFails("reports") /\ SearchCatch(ResponseError)
       ELSE LET reportResp == EsSearch(esReports, search.reportQuery)
                matchingReports == reportResp.hits
                matchingCompanyIds == MatchingCompanyIds(matchingReports)
            IN IF ShortCircuits(matchingCompanyIds)
               THEN /\ search' = [search EXCEPT !.pc = "done",
                                                 !.matchingReports = matchingReports]
                    /\ searchSent' = Append(searchSent, OkResponse(0, <<>>))
                    /\ searchEs' = [searchEs EXCEPT !.reportsSeen = esReports]
               ELSE /\ search' = [search EXCEPT !.pc = "companyQuery",
                                                 !.matchingReports = matchingReports]
                    /\ searchSent' = searchSent
                    /\ searchEs' = [searchEs EXCEPT !.reportsSeen = esReports,
                                                     !.companyQueries = @ + 1]
  /\ UNCHANGED <<esVars, clientV7, startPc, console, listening, insertVars,
                 requests>>

\* the company query returns or throws; on hits the handler attaches the
\* reports and answers
CompanyQueryReturns ==
  /\ search.pc = "companyQuery"
  /\ LET companyQuery ==
           CompanyQuery(search.body, MatchingCompanyIds(search.matchingReports))
     IN \E throws \in BOOLEAN :
          IF throws THEN EsFails("company") /\ SearchCatch(ConnectionError)
          ELSE IF ~EsSearchValid(companyQuery)
          THEN EsFails("company") /\ SearchCatch(ResponseError)
          ELSE LET companyResp == EsSearch(esCompany, companyQuery)
               IN /\ search' = [search EXCEPT !.pc = "done"]
                  /\ searchSent' =
                       Append(searchSent,
                              OkResponse(companyResp.total,
                                         CompaniesWithReports(companyResp.hits,
                                                              search.matchingReports)))
                  /\ searchEs' = [searchEs EXCEPT !.companySeen = esCompany]
  /\ UNCHANGED <<esVars, clientV7, startPc, console, listening, insertVars,
                 requests>>

(***************************************************************************)
(* POST /insertSampleData.                                                 *)
(***************************************************************************)
\* the items a bulk request may reject: none, or its first few
RejectedChoices == {{}, 1..MaxRejected}

DocSet(idx) == Range(idx)

InsertCatch(message) ==
  /\ insert' = [insert EXCEPT !.pc = "done", !.clean = FALSE,
                               !.logged = Append(@, message),
                               !.sent = Append(@, ErrorResponse(message))]
  /\ UNCHANGED <<esVars, seeded>>

\* the handler builds the companies and awaits the first bulk request
ReceiveInsert ==
  /\ listening
  /\ requests < MaxRequests
  /\ insert.pc \in {"idle", "done"}
  /\ insert' = [insert EXCEPT !.pc = "companyBulk", !.clean = TRUE,
                               !.sent = <<>>, !.logged = <<>>]
  /\ requests' = requests + 1
  /\ UNCHANGED <<esVars, clientV7, startPc, console, listening, searchVars,
                 seeded>>

\* the company bulk request returns or throws; the handler logs rejected
\* items, builds the reports and awaits the second bulk request
CompanyBulkReturns ==
  /\ insert.pc = "companyBulk"
  /\ \E throws \in BOOLEAN, rejected \in RejectedChoices :
       IF throws THEN InsertCatch(ConnectionError)
       ELSE /\ esCompany' = EsBulk(esCompany, BulkOps(SampleCompanyDocs), rejected)
            /\ insert' = [insert EXCEPT
                            !.pc = "reportsBulk",
                            !.clean = (rejected = {}),
                            !.logged = IF rejected # {}
                                       THEN Append(@, "Some company inserts failed")
                                       ELSE @]
            /\ UNCHANGED <<esReports, indices, seeded>>
  /\ UNCHANGED <<clientV7, startPc, console, listening, searchVars, requests>>

\* the reports bulk request returns or throws; the handler logs rejected
\* items and answers with the records it built
ReportsBulkReturns ==
  /\ insert.pc = "reportsBulk"
  /\ \E throws \in BOOLEAN, rejected \in RejectedChoices :
       IF throws THEN InsertCatch(ConnectionError)
       ELSE LET clean == insert.clean /\ rejected = {}
            IN /\ esReports' = EsBulk(esReports, BulkOps(SampleReportDocs), rejected)
               /\ insert' = [insert EXCEPT
                               !.pc = "done",
                               !.clean = clean,
                               !.runs = IF clean THEN Min(@ + 1, 2) ELSE @,
                               !.logged = IF rejected # {}
                                          THEN Append(@, "Some report inserts failed")
                                          ELSE @,
                               !.sent = Append(@, [status |-> 200,
                                                   body |-> [success |-> TRUE,
                                                             companies |-> SampleCompanyDocs,
                                                             reports |-> SampleReportDocs]])]
               /\ seeded' = IF clean /\ seeded = <<>>
                            THEN <<[company |-> DocSet(esCompany),
                                    reports |-> DocSet(esReports')]>>
                            ELSE seeded
               /\ UNCHANGED <<esCompany, indices>>
  /\ UNCHANGED <<clientV7, startPc, console, listening, searchVars, requests>>

Next ==
  \/ Health
  \/ Info
  \/ ExistsCompany
  \/ CreateCompany
  \/ ExistsReports
  \/ CreateReports
  \/ ReceiveSearch
  \/ ReportQueryReturns
  \/ CompanyQueryReturns
  \/ ReceiveInsert
  \/ CompanyBulkReturns
  \/ ReportsBulkReturns

Spec == Init /\ [][Next]_vars

(***************************************************************************)
(* What the claims speak of.                                               *)
(***************************************************************************)
\* the handler has answered its request
Answered == search.pc = "done" /\ Len(searchSent) >= 1

Response == searchSent[1]

Succeeded == Answered /\ Response.body.success

\* a filter of the declared shape { id?, name?, tags?: string[], status? }
WellTyped(filters) ==
  /\ filters.id.t \in {"undefined", "string"}
  /\ filters.name.t \in {"undefined", "string"}
  /\ filters.tags.t \in {"undefined", "array"}
  /\ filters.status.t \in {"undefined", "string"}

\* a field that is set: present and not the empty string or the empty list
IsSet(v) ==
  \/ v.t = "string" /\ v.s # ""
  \/ v.t = "array" /\ v.items # <<>>

\* report r satisfies a well-typed report filter
SatisfiesReportFilter(r, f) ==
  /\ IsSet(f.id) => r.id = f.id.s
  /\ IsSet(f.name) => \E token \in Analyze(f.name.s) : token \in Analyze(r.name)
  /\ IsSet(f.tags) => \E i \in DOMAIN f.tags.items : f.tags.items[i] \in Range(r.tags)
  /\ IsSet(f.status) => r.status = f.status.s

\* company c satisfies a company filter
SatisfiesCompanyFilter(c, f) ==
  /\ IsSet(f.id) => c.id = f.id.s
  /\ IsSet(f.name) => \E token \in Analyze(f.name.s) : token \in Analyze(c.name)

Sources(idx) == {idx[i]._source : i \in DOMAIN idx}

\* the companies the request was about: those the company query saw that
\* satisfy the company filter and own a report, among those the report
\* query saw, that satisfies the report filter
\* the company index as the request saw it (as it is, when the request
\* issued no company query)
CompaniesSeen ==
  IF searchEs.companyQueries = 0 THEN esCompany ELSE searchEs.companySeen

Qualifying ==
  {c \in Sources(CompaniesSeen) :
     /\ SatisfiesCompanyFilter(c, search.body.companyFilters)
     /\ \E r \in Sources(searchEs.reportsSeen) :
          /\ SatisfiesReportFilter(r, search.body.reportFilters)
          /\ r.company_id = c.id}

ReturnedIds == {Response.body.companies[i].id : i \in DOMAIN Response.body.companies}

(***************************************************************************)
(* C1.  Join correctness: in every successful response to a well-typed     *)
(* request, each report attached to a company satisfies the report filter  *)
(* and has that company's id as its company_id.                            *)
(***************************************************************************)
C1_JoinCorrect ==
  (Succeeded /\ WellTyped(search.body.reportFilters)) =>
    \A i \in DOMAIN Response.body.companies :
      LET company == Response.body.companies[i]
      IN \A j \in DOMAIN company.reports :
           /\ SatisfiesReportFilter(company.reports[j], search.body.reportFilters)
           /\ company.reports[j].company_id = company.id

\* two companies are returned with reports, under a status filter that
\* leaves out other reports of the same companies
C1_Witness ==
  /\ Succeeded
  /\ IsSet(search.body.reportFilters.status)
  /\ Len(Response.body.companies) >= 2
  /\ \A i \in DOMAIN Response.body.companies : Response.body.companies[i].reports # <<>>
  /\ \E r \in Sources(searchEs.reportsSeen) :
       /\ r.company_id \in ReturnedIds
       /\ ~SatisfiesReportFilter(r, search.body.reportFilters)

(***************************************************************************)
(* C2.  Every company of a successful response has a non-empty reports     *)
(* list, and its id is one of the company_id values of the matched         *)
(* reports.                                                                *)
(***************************************************************************)
C2_NoChildlessCompany ==
  Succeeded =>
    \A i \in DOMAIN Response.body.companies :
      /\ Response.body.companies[i].reports # <<>>
      /\ Response.body.companies[i].id
           \in {search.matchingReports[j].company_id : j \in DOMAIN search.matchingReports}

\* companies are returned while the index holds a company that satisfies
\* the company filter and owns no matching report
C2_Witness ==
  /\ Succeeded
  /\ Response.body.companies # <<>>
  /\ \E c \in Sources(CompaniesSeen) :
       /\ SatisfiesCompanyFilter(c, search.body.companyFilters)
       /\ c.id \notin ReturnedIds
       /\ \A j \in DOMAIN search.matchingReports :
            search.matchingReports[j].company_id # c.id

(***************************************************************************)
(* C3.  Empty-join short-circuit: when the report query succeeds and       *)
(* selects no report, the one response is { success: true, total: 0,       *)
(* companies: [] } and no query was issued against the company index.      *)
(***************************************************************************)
NoReportSelected ==
  /\ search.pc = "done"
  /\ searchEs.failedAt # "reports"
  /\ \A r \in Sources(searchEs.reportsSeen) : ~QueryMatches(r, search.reportQuery.query)

C3_EmptyJoinShortCircuit ==
  NoReportSelected =>
    /\ searchSent = <<[status |-> 200,
                       body |-> [success |-> TRUE, total |-> 0, companies |-> <<>>]]>>
    /\ searchEs.companyQueries = 0

\* the filter selects none of the reports of an index that holds reports
\* and companies
C3_Witness ==
  /\ NoReportSelected
  /\ Answered
  /\ searchEs.reportsSeen # <<>>
  /\ esCompany # <<>>

(***************************************************************************)
(* C4.  Match-all completeness, as claimed: a successful response to the   *)
(* empty body {} holds every company that has at least one report.         *)
(***************************************************************************)
WithReport ==
  {c \in Sources(CompaniesSeen) :
     \E r \in Sources(searchEs.reportsSeen) : r.company_id = c.id}

C4_MatchAllReturnsAll ==
  (Succeeded /\ search.body = EmptyBody) =>
    ReturnedIds = {c.id : c \in WithReport}

(***************************************************************************)
(* C4, amended.  A successful response to the empty body {} holds the      *)
(* first page of the N companies that have at least one report: the first  *)
(* min(N, 10) of them in ascending order of name, each once, with          *)
(* total = N; so it holds every one of them when N <= 10.                  *)
(***************************************************************************)
C4_MatchAllFirstPage ==
  (Succeeded /\ search.body = EmptyBody) =>
    LET W == WithReport
        N == Cardinality(W)
        returned == {c \in W : c.id \in ReturnedIds}
    IN /\ Response.body.total = N
       /\ ReturnedIds \subseteq {c.id : c \in W}
       /\ Len(Response.body.companies) = Min(N, DefaultSize)
       /\ Cardinality(ReturnedIds) = Len(Response.body.companies)
       /\ \A c \in returned : \A d \in W \ returned :
            KeywordRank(c.name) <= KeywordRank(d.name)
       /\ \A i, j \in DOMAIN Response.body.companies :
            i < j => KeywordRank(Response.body.companies[i].name)
                       <= KeywordRank(Response.body.companies[j].name)
       /\ N <= DefaultSize => ReturnedIds = {c.id : c \in W}

\* more companies have a report than the default page holds
C4_Witness ==
  /\ Succeeded
  /\ search.body = EmptyBody
  /\ Cardinality(WithReport) > DefaultSize
  /\ Len(Response.body.companies) = DefaultSize

(***************************************************************************)
(* C5.  Pagination and total: in a successful response to a well-typed     *)
(* request with page p and size s, total is the number N of qualifying     *)
(* companies, and the k-th company returned is the one at position         *)
(* (p-1)*s + k of the qualifying companies in the declared sort order, for *)
(* the positions (p-1)*s+1 .. min(p*s, N).                                 *)
(***************************************************************************)
RequestedPage == OrDefault(search.body.page, JNum(DefaultPage)).n
RequestedSize == OrDefault(search.body.size, JNum(DefaultSize)).n
RequestedSortField == OrDefault(search.body.sortField, JStr("name.keyword")).s
RequestedSortOrder == OrDefault(search.body.sortOrder, JStr("asc")).s

DocumentOrder(c) == CHOOSE i \in DOMAIN CompaniesSeen : CompaniesSeen[i]._source = c

\* c comes before d in the declared sort order
ComesBefore(c, d) ==
  LET kc == KeywordRank(IF RequestedSortField = "id" THEN c.id ELSE c.name)
      kd == KeywordRank(IF RequestedSortField = "id" THEN d.id ELSE d.name)
  IN \/ RequestedSortOrder = "asc" /\ kc < kd
     \/ RequestedSortOrder = "desc" /\ kc > kd
     \/ kc = kd /\ DocumentOrder(c) < DocumentOrder(d)

\* the position of c among the companies Q in the declared sort order
PositionOf(c, Q) == 1 + Cardinality({d \in Q : ComesBefore(d, c)})

C5_Pagination ==
  (Succeeded /\ WellTyped(search.body.reportFilters)) =>
    LET Q == Qualifying
        N == Cardinality(Q)
        first == (RequestedPage - 1) * RequestedSize + 1
        last == Min(RequestedPage * RequestedSize, N)
        companies == Response.body.companies
    IN /\ Response.body.total = N
       /\ searchEs.companyQueries = 1 =>
            /\ Len(companies) = IF last >= first THEN last - first + 1 ELSE 0
            /\ \A k \in DOMAIN companies :
                 \E c \in Q :
                   /\ c.id = companies[k].id
                   /\ c.name = companies[k].name
                   /\ PositionOf(c, Q) = first + k - 1

\* page 2 of size 2 of five qualifying companies, which own more than five
\* matching reports
C5_Witness ==
  /\ Succeeded
  /\ RequestedPage = 2 /\ RequestedSize = 2
  /\ Cardinality(Qualifying) = 5
  /\ Len(search.matchingReports) > 5
  /\ Len(Response.body.companies) = 2
  /\ Response.body.total = 5

(***************************************************************************)
(* C6.  Backend failure is all-or-nothing: when the engine fails the       *)
(* report query or the company query, the handler sends exactly one        *)
(* response, with status 500 and the body { success: false, error }, which *)
(* holds no total, companies or reports; the listener keeps running and    *)
(* takes the next request.                                                 *)
(***************************************************************************)
C6_BackendFailure ==
  (search.pc = "done" /\ searchEs.failedAt # "none") =>
    /\ Len(searchSent) = 1
    /\ searchSent[1].status = 500
    /\ DOMAIN searchSent[1].body = {"success", "error"}
    /\ searchSent[1].body.success = FALSE
    /\ searchSent[1].body.error \in {ConnectionError, ResponseError}
    /\ listening
    /\ requests < MaxRequests => ENABLED ReceiveSearch

\* the company query fails after the report query has matched reports
C6_Witness ==
  /\ search.pc = "done"
  /\ searchEs.failedAt = "company"
  /\ search.matchingReports # <<>>
  /\ Len(searchSent) = 1

(***************************************************************************)
(* C7.  Malformed filter values are rejected: a request whose report       *)
(* filter has a wrong-typed value (tags that is not a list) is answered    *)
(* with a failure response.                                                *)
(***************************************************************************)
C7_MalformedFilterRejected ==
  (search.pc = "done" /\ ~WellTyped(search.body.reportFilters)) =>
    /\ Len(searchSent) = 1
    /\ searchSent[1].status = 500
    /\ searchSent[1].body.success = FALSE

(***************************************************************************)
(* C8.  Startup gating: the listener runs only after the cluster-health    *)
(* check and then ensureIndexes have completed, with both indices in       *)
(* place; after a startup failure the failure is the last line logged, the *)
(* listener does not run and no request is received; a request is only     *)
(* ever handled with the listener running and both indices in place.       *)
(***************************************************************************)
C8_StartupGating ==
  /\ listening =>
       /\ startPc = "serving"
       /\ {"company", "reports"} \subseteq indices
       /\ \E i, j \in DOMAIN console :
            /\ i < j
            /\ console[i] = "Elasticsearch cluster health"
            /\ console[j] = "Indexes ensured."
  /\ startPc = "failed" =>
       /\ ~listening
       /\ console # <<>> /\ console[Len(console)] = "Startup error"
       /\ requests = 0
  /\ (search.pc # "idle" \/ insert.pc # "idle" \/ requests > 0) =>
       listening /\ {"company", "reports"} \subseteq indices

\* ensureIndexes fails after the health check and the creation of the
\* company index
C8_Witness ==
  /\ startPc = "failed"
  /\ console = <<"Elasticsearch cluster health", "Created company index", "Startup error">>
  /\ "reports" \notin indices

(***************************************************************************)
(* C9.  Seed idempotence: when a run of /insertSampleData ends without a   *)
(* thrown error or a rejected item, each of C1..C5 and R1..R15 is the _id  *)
(* of exactly one document, the sample document; and when the second such  *)
(* run ends, both indices hold the documents they held when the first one  *)
(* ended, each once.                                                       *)
(***************************************************************************)
StoredUnder(idx, id) == {k \in DOMAIN idx : idx[k]._id = id}

C9_SeedIdempotent ==
  (insert.pc = "done" /\ insert.clean) =>
    /\ \A i \in DOMAIN SampleCompanyDocs :
         /\ Cardinality(StoredUnder(esCompany, SampleCompanyDocs[i].id)) = 1
         /\ \A k \in StoredUnder(esCompany, SampleCompanyDocs[i].id) :
              esCompany[k]._source = SampleCompanyDocs[i]
    /\ \A n \in DOMAIN SampleReportDocs :
         /\ Cardinality(StoredUnder(esReports, SampleReportDocs[n].id)) = 1
         /\ \A k \in StoredUnder(esReports, SampleReportDocs[n].id) :
              esReports[k]._source = SampleReportDocs[n]
    /\ insert.runs = 2 =>
         /\ DocSet(esCompany) = seeded[1].company
         /\ DocSet(esReports) = seeded[1].reports
         /\ Len(esCompany) = Cardinality(seeded[1].company)
         /\ Len(esReports) = Cardinality(seeded[1].reports)

\* the second clean run has ended on an index that held other documents
C9_Witness ==
  /\ insert.pc = "done" /\ insert.clean /\ insert.runs = 2
  /\ ExtraCompany(1) \in Sources(esCompany)
  /\ OrphanReport \in Sources(esReports)

(***************************************************************************)
(* C10.  Filter compilation: the report query of a well-typed request      *)
(* holds, in the order id, name, tags, status, one clause for each field   *)
(* that is set (term on id, match on name, terms on tags.keyword, term on  *)
(* status) and no other clause; with no field set it is match_all.         *)
(***************************************************************************)
ClauseOf(filters, key) ==
  CASE key = "id" -> [q |-> "term", field |-> "id", value |-> filters.id]
    [] key = "name" -> [q |-> "match", field |-> "name", value |-> filters.name]
    [] key = "tags" -> [q |-> "terms", field |-> "tags.keyword", value |-> filters.tags]
    [] key = "status" -> [q |-> "term", field |-> "status", value |-> filters.status]

C10_FilterCompilation ==
  (search.pc # "idle" /\ WellTyped(search.body.reportFilters)) =>
    LET filters == search.body.reportFilters
        set == SelectSeq(<<"id", "name", "tags", "status">>, LAMBDA key : IsSet(filters[key]))
    IN /\ search.reportQuery.index = "reports"
       /\ search.reportQuery.query =
            IF set = <<>> THEN [q |-> "match_all", must |-> <<>>]
            ELSE [q |-> "bool", must |-> [i \in DOMAIN set |-> ClauseOf(filters, set[i])]]

\* a request that sets all four fields
C10_Witness ==
  /\ search.pc = "reportQuery"
  /\ \A key \in {"id", "name", "tags", "status"} : IsSet(search.body.reportFilters[key])
  /\ Len(search.reportQuery.query.must) = 4

=============================================================================
